---- MODULE Spec2Model ----
(***************************************************************************)
(* Model of pangeo_forge_recipes/openers.py: open_url, _set_engine,        *)
(* open_with_kerchunk and open_with_xarray.                                *)
(*                                                                         *)
(* Every function is synchronous.  A call is one action: it draws the      *)
(* arguments and the collaborators' behaviour, runs the whole function     *)
(* and records its outcome (status, return value, the collaborator calls   *)
(* in the order they were made, the warnings in the order they were        *)
(* emitted).  Return hands the outcome to the caller.  The only state      *)
(* that outlives a call is the content of the cache collaborator.          *)
(***************************************************************************)
EXTENDS Naturals, Sequences, FiniteSets

VARIABLES pc, call, status, ret, log, warns, cached

vars == <<pc, call, status, ret, log, warns, cached>>

(***************************************************************************)
(* Bounds of the model                                                     *)
(***************************************************************************)
\* Longest sequence of per-message mappings the GRIB scanner returns.
MaxMessages == 3

(***************************************************************************)
(* Values                                                                  *)
(***************************************************************************)
\* Python's None, and the value of `ret` when a call raised.
None == [kind |-> "None"]

\* The members of the FileType enumeration.
FileType == {"netcdf3", "netcdf4", "zarr", "grib", "opendap", "unknown"}

KnownFileType == FileType \ {"unknown"}

Urls == {"u1", "u2"}

\* The name of the temporary file of a copy_to_local call (ntf.name).
tmp_name == "tmp"

\* Values a caller may pass as the xarray `engine` option.
Engines == {"scipy", "h5netcdf", "zarr", "cfgrib", "netcdf4"}

\* The kinds of object the functions take as url_or_file_obj, in the order
\* the isinstance chain tests them: a str, a zarr FSStore, an io.IOBase
\* file object, an object with an open() method (fsspec OpenFile).
SourceKinds == {"str", "FSStore", "IOBase", "OpenFile"}

\* A source: its kind, the url it stands for, and whether the object read
\* after normalization (the object itself, or the file its open() returns)
\* has a `path` attribute.  A str has none and an FSStore has one; a file
\* object may (fsspec's) or may not (a builtin file, io.BytesIO).
Sources ==
    [kind : {"str"}, url : Urls, path : {FALSE}]
    \cup [kind : {"FSStore"}, url : Urls, path : {TRUE}]
    \cup [kind : {"IOBase", "OpenFile"}, url : Urls, path : BOOLEAN]

\* xarray_open_kwargs: None, or a dict with any of the keys engine, chunks.
XarrayOpenKwargs ==
    {None}
    \cup { [k \in {"chunks"} |-> "auto"] }
    \cup { [k \in {"engine"} |-> e] : e \in Engines }
    \cup { [k \in {"engine", "chunks"} |-> IF k = "engine" THEN e ELSE "auto"]
             : e \in Engines }
    \cup { [k \in {} |-> "auto"] }

\* The outcomes of a call: "ok", or the exception it raised.
EngineConflict        == "ValueError: engine differs from the file type's"
TypeMismatch          == "ValueError: FSStore can only be opened as zarr"
UnsupportedCopyTarget == "ValueError: file type can't be copied to a local file"
UnsupportedCopySource == "ValueError: won't copy string URLs to local files"
KeyError              == "KeyError"
TypeError             == "TypeError"
AttributeError        == "AttributeError"
IndexError            == "IndexError"
UnboundLocalError     == "UnboundLocalError"
CollaboratorError     == "error raised by a collaborator"

\* The warnings.
AutoDetectWarning == "unknown file type without engine"
RedundantEngineWarning == "engine is the one set automatically"
LocalCopyWarning == "copied to a local file but not loaded"

\* The collaborator calls a function can make, as they appear in `log`.
CacheFile      == "cache.cache_file"
CacheOpenFile  == "cache.open_file"
GetOpener      == "_get_opener"
SetEngine      == "_set_engine"
TempFile       == "tempfile.NamedTemporaryFile"
OpenTarget     == "open(tmp_name, 'wb')"
CopyBtw        == "_copy_btw_filesystems"
HandleOpen     == "url_or_file_obj.open"
XrOpenDataset  == "xr.open_dataset"
DsLoad         == "ds.load"
Hdf5Scanner    == "SingleHdf5ToZarr"
Hdf5Translate  == "SingleHdf5ToZarr.translate"
NetCDF3Scanner == "NetCDF3ToZarr"
NetCDF3Translate == "NetCDF3ToZarr.translate"
GribScanner    == "scan_grib"

Scanners == {Hdf5Scanner, NetCDF3Scanner, GribScanner}

\* The collaborator calls of each function that can raise, one per call of
\* the function; "none": no collaborator raises.
OpenUrlFailPoints == {"none", CacheFile, CacheOpenFile, GetOpener}

KerchunkFailPoints == {"none", HandleOpen, Hdf5Scanner, Hdf5Translate, NetCDF3Scanner,
                       NetCDF3Translate, GribScanner}

XarrayFailPoints == {"none", TempFile, OpenTarget, CopyBtw, HandleOpen, XrOpenDataset,
                     DsLoad}

(***************************************************************************)
(* Python helpers                                                          *)
(***************************************************************************)
EmptyDict == [k \in {} |-> "auto"]

\* `x or y` for x None or a dict: None and the empty dict are false.
Or(x, y) == IF x = None \/ x = EmptyDict THEN y ELSE x

\* `a or b` for members of the FileType enumeration, which are all true.
EnumOr(a, b) == IF a \in FileType THEN a ELSE b

\* dict.update: the entries of `other` are written over those of `d`.
Update(d, other) ==
    [k \in DOMAIN d \cup DOMAIN other |-> IF k \in DOMAIN other THEN other[k] ELSE d[k]]

\* The state of a running call.  status "run": no exception so far.
Start(obj) == [status |-> "run", obj |-> obj, kw |-> EmptyDict, val |-> None,
               log |-> <<>>, warns |-> <<>>]

Raise(st, exc) == IF st.status # "run" THEN st ELSE [st EXCEPT !.status = exc]

\* A call of collaborator `name`: logged, and it raises when it is `fail`.
Invoke(st, name, fail) ==
    IF st.status # "run" THEN st
    ELSE IF fail = name
    THEN [st EXCEPT !.log = Append(@, name), !.status = CollaboratorError]
    ELSE [st EXCEPT !.log = Append(@, name)]

Warn(st, w) == IF st.status # "run" THEN st ELSE [st EXCEPT !.warns = Append(@, w)]

\* An assignment of the value the call returns.
SetVal(st, v) == IF st.status # "run" THEN st ELSE [st EXCEPT !.val = v]

\* The outcome of a finished call.
Finish(st) == [status |-> IF st.status = "run" THEN "ok" ELSE st.status,
               ret |-> IF st.status = "run" THEN st.val ELSE None,
               log |-> st.log, warns |-> st.warns]

(***************************************************************************)
(* open_url                                                                *)
(***************************************************************************)
\* The two cache calls in the other order.
OpenBeforeCache(st, fail) ==
    SetVal(Invoke(Invoke(st, CacheOpenFile, fail), CacheFile, fail),
           [kind |-> "OpenFile", url |-> st.obj])

\* The two cache calls of the branch `cache is not None`, in the code's order.
OpenViaCache(st, fail) ==
    SetVal(Invoke(Invoke(st, CacheFile, fail), CacheOpenFile, fail),
           [kind |-> "OpenFile", url |-> st.obj])

OpenDirect(st, fail) ==
    SetVal(Invoke(st, GetOpener, fail), [kind |-> "OpenFile", url |-> st.obj])

open_url(url, cache, secrets, open_kwargs, fail) ==
    LET kw == Or(open_kwargs, EmptyDict) IN
    Finish(IF cache # None THEN OpenViaCache(Start(url), fail)
           ELSE OpenDirect(Start(url), fail))

(***************************************************************************)
(* _set_engine                                                             *)
(***************************************************************************)
OPENER_MAP ==
    [ft \in {"netcdf3", "netcdf4", "zarr"} |->
        CASE ft = "netcdf3" -> [engine |-> "scipy"]
          [] ft = "netcdf4" -> [engine |-> "h5netcdf"]
          [] ft = "zarr"    -> [engine |-> "zarr"]]

\* The body of _set_engine on a running call whose options are st.kw; a
\* lookup of OPENER_MAP with a file type it does not hold raises KeyError.
ResolveEngine(st, file_type) ==
    IF st.status # "run" THEN st
    ELSE IF file_type = "unknown"
    THEN IF "engine" \notin DOMAIN st.kw THEN Warn(st, AutoDetectWarning) ELSE st
    ELSE IF "engine" \in DOMAIN st.kw
    THEN IF file_type \notin DOMAIN OPENER_MAP THEN Raise(st, KeyError)
         ELSE IF st.kw["engine"] = OPENER_MAP[file_type]["engine"]
         THEN Warn(st, RedundantEngineWarning)
         ELSE Raise(st, EngineConflict)
    ELSE IF file_type \notin DOMAIN OPENER_MAP THEN Raise(st, KeyError)
         ELSE [st EXCEPT !.kw = Update(@, OPENER_MAP[file_type])]

_set_engine(file_type, xr_open_kwargs) ==
    LET st == ResolveEngine([Start(None) EXCEPT !.kw = xr_open_kwargs], file_type) IN
    Finish(SetVal(st, st.kw))

(***************************************************************************)
(* Source normalization (the isinstance chain of both open_with_ functions)*)
(***************************************************************************)
Normalize(st, file_type, fail) ==
    IF st.status # "run" THEN st
    ELSE CASE st.obj.kind = "str" -> st
           [] st.obj.kind = "FSStore" ->
                IF file_type # "zarr" THEN Raise(st, TypeMismatch) ELSE st
           [] st.obj.kind = "IOBase" -> st
           [] st.obj.kind = "OpenFile" ->
                LET a == Invoke(st, HandleOpen, fail) IN
                IF a.status # "run" THEN a
                ELSE [a EXCEPT !.obj = [kind |-> "IOBase", url |-> st.obj.url,
                                        path |-> st.obj.path]]

(***************************************************************************)
(* open_with_kerchunk                                                      *)
(***************************************************************************)
\* The values a caller passes for inline_threshold, netcdf3_max_chunk_size,
\* storage_options and grib_filters, by type: the declared ones (an int,
\* None, a dict) or a tuple holding the value.
IntOptions  == {[type |-> "int"], [type |-> "tuple"]}
DictOptions == {[type |-> "NoneType"], [type |-> "dict"], [type |-> "tuple"]}

\* `x[0]`: the first element of a tuple; a dict holds no key 0; an int and
\* None are not subscriptable.
Subscript0(st, x) ==
    IF st.status # "run" THEN st
    ELSE CASE x.type = "tuple" -> st
           [] x.type = "dict"  -> Raise(st, KeyError)
           [] OTHER            -> Raise(st, TypeError)

\* `url_or_file_obj.path`: AttributeError for an object without the
\* attribute (a str, a file object that has none).
GetPath(st) ==
    IF st.status # "run" THEN st
    ELSE IF ~st.obj.path THEN Raise(st, AttributeError) ELSE st

\* The keys of the reference mappings of the model.
RefKeys == {"a", "b", "c"}

\* The per-message mapping of the i-th message of a GRIB file holding the
\* keys ks: each of its references points into message i.
Message(i, ks) == [version |-> 1, refs |-> [k \in ks |-> i]]

\* What scan_grib may return: a list of 0..MaxMessages per-message mappings.
GribOutputs ==
    UNION { { [i \in 1..n |-> Message(i, ks[i])] : ks \in [1..n -> SUBSET RefKeys] }
            : n \in 0..MaxMessages }

\* What translate() may return.
TranslateOutputs == { Message(1, ks) : ks \in SUBSET RefKeys }

\* The loop `for other_ref in grib_references[1:]: primary_refs.update(...)`
\* from message i on.
RECURSIVE MergeFrom(_, _, _)
MergeFrom(primary_refs, grib_refs, i) ==
    IF i > Len(grib_refs) THEN primary_refs
    ELSE MergeFrom(Update(primary_refs, grib_refs[i]["refs"]), grib_refs, i + 1)

\* The same without the write-back `ref["refs"] = primary_refs`.
GribConsolidateNoWriteBack(st, grib_refs) ==
    IF st.status # "run" THEN st
    ELSE IF Len(grib_refs) = 0 THEN Raise(st, IndexError)
    ELSE SetVal(st, [version |-> grib_refs[1]["version"],
                     refs |-> grib_refs[1]["refs"],
                     templates |-> [u |-> st.obj]])

\* "Consolidate / post-process references".
GribConsolidate(st, grib_refs) ==
    IF st.status # "run" THEN st
    ELSE IF Len(grib_refs) = 1
    THEN SetVal(st, [version |-> grib_refs[1]["version"],
                     refs |-> grib_refs[1]["refs"],
                     templates |-> [u |-> st.obj]])
    ELSE IF Len(grib_refs) = 0 THEN Raise(st, IndexError)
    ELSE SetVal(st, [version |-> grib_refs[1]["version"],
                     templates |-> [u |-> st.obj],
                     refs |-> MergeFrom(grib_refs[1]["refs"], grib_refs, 2)])

ScanHdf5(st, o, scanned, fail) ==
    SetVal(Invoke(Invoke(Subscript0(Subscript0(GetPath(st), o.inline_threshold),
                                    o.storage_options),
                         Hdf5Scanner, fail),
                  Hdf5Translate, fail),
           scanned)

ScanNetCDF3(st, o, scanned, fail) ==
    SetVal(Invoke(Invoke(Subscript0(Subscript0(Subscript0(st, o.inline_threshold),
                                               o.netcdf3_max_chunk_size),
                                    o.storage_options),
                         NetCDF3Scanner, fail),
                  NetCDF3Translate, fail),
           scanned)

ScanGrib(st, o, scanned, fail) ==
    GribConsolidate(Invoke(Subscript0(Subscript0(Subscript0(st, o.inline_threshold),
                                                 o.grib_filters),
                                      o.storage_options),
                           GribScanner, fail),
                    scanned)

\* The if/elif chain on file_type; with no branch taken `return ref` reads
\* a local that was never bound.
Dispatch(st, file_type, o, scanned, fail) ==
    CASE file_type = "netcdf4" -> ScanHdf5(st, o, scanned, fail)
      [] file_type = "netcdf3" -> ScanNetCDF3(st, o, scanned, fail)
      [] file_type = "grib"    -> ScanGrib(st, o, scanned, fail)
      [] OTHER                 -> Raise(st, UnboundLocalError)

\* o: the four options; scanned: what the scanner returns if it is called.
open_with_kerchunk(url_or_file_obj, file_type, o, scanned, fail) ==
    Finish(Dispatch(Normalize(Start(url_or_file_obj), file_type, fail),
                    file_type, o, scanned, fail))

(***************************************************************************)
(* open_with_xarray                                                        *)
(***************************************************************************)
\* kw = _set_engine(file_type, kw)
XrSetEngine(st, file_type) == ResolveEngine(Invoke(st, SetEngine, "none"), file_type)

\* The file types of the list `[FileType.zarr or FileType.opendap]`.
NoLocalCopy == {EnumOr("zarr", "opendap")}

\* The block `if copy_to_local:`.
CopyToLocal(st, file_type, copy_to_local, fail) ==
    IF st.status # "run" \/ ~copy_to_local THEN st
    ELSE IF file_type \in NoLocalCopy THEN Raise(st, UnsupportedCopyTarget)
    ELSE IF st.obj.kind = "str" THEN Raise(st, UnsupportedCopySource)
    ELSE LET a == Invoke(Invoke(Invoke(st, TempFile, fail), OpenTarget, fail),
                         CopyBtw, fail) IN
         IF a.status # "run" THEN a
         ELSE [a EXCEPT !.obj = [kind |-> "str", url |-> tmp_name, path |-> FALSE]]

\* ds = xr.open_dataset(url_or_file_obj, **kw)
Materialize(st, fail) ==
    LET a == Invoke(st, XrOpenDataset, fail) IN
    SetVal(a, [source |-> st.obj, kw |-> st.kw, loaded |-> FALSE])

\* if load: ds.load()
Load(st, load, fail) ==
    IF st.status # "run" \/ ~load THEN st
    ELSE LET a == Invoke(st, DsLoad, fail) IN
         SetVal(a, [st.val EXCEPT !.loaded = TRUE])

\* The same without the test of `load`.
WarnWheneverCopied(st, load, copy_to_local) ==
    IF copy_to_local THEN Warn(st, LocalCopyWarning) ELSE st

\* if copy_to_local and not load: warnings.warn(...)
WarnNotLoaded(st, load, copy_to_local) ==
    IF copy_to_local /\ ~load THEN Warn(st, LocalCopyWarning) ELSE st

\* The same with the local copy made before the engine is resolved.
open_with_xarray_CopyFirst(url_or_file_obj, file_type, load, copy_to_local, xarray_open_kwargs, fail) ==
    LET s0 == [Start(url_or_file_obj) EXCEPT !.kw = Or(xarray_open_kwargs, EmptyDict)]
        s1 == CopyToLocal(s0, file_type, copy_to_local, fail)
        s2 == XrSetEngine(s1, file_type)
        s3 == Normalize(s2, file_type, fail)
        s4 == Materialize(s3, fail)
        s5 == Load(s4, load, fail)
    IN  Finish(WarnNotLoaded(s5, load, copy_to_local))

open_with_xarray(url_or_file_obj, file_type, load, copy_to_local, xarray_open_kwargs, fail) ==
    LET s0 == [Start(url_or_file_obj) EXCEPT !.kw = Or(xarray_open_kwargs, EmptyDict)]
        s1 == XrSetEngine(s0, file_type)
        s2 == CopyToLocal(s1, file_type, copy_to_local, fail)
        s3 == Normalize(s2, file_type, fail)
        s4 == Materialize(s3, fail)
        s5 == Load(s4, load, fail)
    IN  Finish(WarnNotLoaded(s5, load, copy_to_local))

(***************************************************************************)
(* The state machine                                                       *)
(***************************************************************************)
Idle == [op |-> "none"]

Init ==
    /\ pc = "idle"
    /\ call = Idle
    /\ status = "none"
    /\ ret = None
    /\ log = <<>>
    /\ warns = <<>>
    /\ cached = {}

Record(r) ==
    /\ pc' = "done"
    /\ status' = r.status
    /\ ret' = r.ret
    /\ log' = r.log
    /\ warns' = r.warns

\* A call of open_url.  cache_file stores the file in the cache unless it raises.
CallOpenUrl ==
    /\ pc = "idle"
    /\ \E url \in Urls, cache \in {None, [kind |-> "CacheFSSpecTarget"]},
          secrets \in {None, [token |-> "t"]},
          open_kwargs \in {None, [block_size |-> "0"]},
          fail \in OpenUrlFailPoints :
          LET r == open_url(url, cache, secrets, open_kwargs, fail) IN
          /\ call' = [op |-> "open_url", url |-> url, cache |-> cache,
                      secrets |-> secrets, open_kwargs |-> open_kwargs, fail |-> fail]
          /\ Record(r)
          /\ cached' = IF CacheFile \in {r.log[i] : i \in DOMAIN r.log} /\ fail # CacheFile
                       THEN cached \cup {url} ELSE cached

\* A call of _set_engine.
CallSetEngine ==
    /\ pc = "idle"
    /\ \E file_type \in FileType, kw \in XarrayOpenKwargs \ {None} :
          /\ call' = [op |-> "_set_engine", file_type |-> file_type, kw |-> kw]
          /\ Record(_set_engine(file_type, kw))
    /\ UNCHANGED cached

\* The options of an open_with_kerchunk call.
KerchunkOptions ==
    [inline_threshold : IntOptions, netcdf3_max_chunk_size : IntOptions,
     storage_options : DictOptions, grib_filters : DictOptions]

\* What the scanner of a call can return: nothing when the call does not get
\* to the scanner's result.
ScanOutputs(url_or_file_obj, file_type, o, fail) ==
    LET r == open_with_kerchunk(url_or_file_obj, file_type, o, <<>>, fail)
        called == {r.log[i] : i \in DOMAIN r.log}
    IN  IF r.status = CollaboratorError THEN {<<>>}
        ELSE IF GribScanner \in called THEN GribOutputs
        ELSE IF called \cap {Hdf5Translate, NetCDF3Translate} # {} THEN TranslateOutputs
        ELSE {<<>>}

\* A call of open_with_kerchunk.
CallOpenWithKerchunk ==
    /\ pc = "idle"
    /\ \E url_or_file_obj \in Sources, file_type \in FileType, o \in KerchunkOptions,
          fail \in KerchunkFailPoints :
          \E scanned \in ScanOutputs(url_or_file_obj, file_type, o, fail) :
             /\ call' = [op |-> "open_with_kerchunk", url_or_file_obj |-> url_or_file_obj,
                         file_type |-> file_type, options |-> o, scanned |-> scanned]
             /\ Record(open_with_kerchunk(url_or_file_obj, file_type, o, scanned, fail))
    /\ UNCHANGED cached

\* A call of open_with_xarray.
CallOpenWithXarray ==
    /\ pc = "idle"
    /\ \E url_or_file_obj \in Sources, file_type \in FileType, load \in BOOLEAN,
          copy_to_local \in BOOLEAN, xarray_open_kwargs \in XarrayOpenKwargs,
          fail \in XarrayFailPoints :
          /\ call' = [op |-> "open_with_xarray", url_or_file_obj |-> url_or_file_obj,
                      file_type |-> file_type, load |-> load,
                      copy_to_local |-> copy_to_local,
                      xarray_open_kwargs |-> xarray_open_kwargs]
          /\ Record(open_with_xarray(url_or_file_obj, file_type, load, copy_to_local,
                                     xarray_open_kwargs, fail))
    /\ UNCHANGED cached

\* The caller takes the outcome.
Return ==
    /\ pc = "done"
    /\ pc' = "idle"
    /\ call' = Idle
    /\ status' = "none"
    /\ ret' = None
    /\ log' = <<>>
    /\ warns' = <<>>
    /\ UNCHANGED cached

Next == CallOpenUrl \/ CallSetEngine \/ CallOpenWithKerchunk \/ CallOpenWithXarray \/ Return

Spec == Init /\ [][Next]_vars

(***************************************************************************)
(* Properties                                                              *)
(***************************************************************************)
Done(op) == pc = "done" /\ call.op = op

Calls == {log[i] : i \in DOMAIN log}

Count(seq, x) == Cardinality({i \in DOMAIN seq : seq[i] = x})

\* The collaborator that raised in the finished call, "none" if none did.
Failed == IF status = CollaboratorError THEN log[Len(log)] ELSE "none"

HasEngine(kw) == kw # None /\ "engine" \in DOMAIN kw

\* C1: for every known file type, _set_engine with options holding no
\* engine succeeds, returns the options with exactly the file type's engine
\* of OPENER_MAP added, and warns of nothing.
C1_KnownTypeGetsCanonicalEngine ==
    (Done("_set_engine") /\ call.file_type \in KnownFileType /\ ~HasEngine(call.kw))
    => /\ status = "ok"
       /\ warns = <<>>
       /\ DOMAIN ret = DOMAIN call.kw \cup {"engine"}
       /\ \A k \in DOMAIN call.kw : ret[k] = call.kw[k]
       /\ call.file_type \in DOMAIN OPENER_MAP
       /\ ret["engine"] = OPENER_MAP[call.file_type]["engine"]

\* C2: for every known file type, _set_engine with an explicit engine other
\* than the file type's raises the engine-conflict ValueError; it raises
\* nothing else, and a successful call leaves the file type's engine.
C2_MismatchRaisesEngineConflict ==
    (Done("_set_engine") /\ call.file_type \in KnownFileType /\ HasEngine(call.kw))
    => /\ status \in {"ok", EngineConflict}
       /\ status = "ok" => /\ call.file_type \in DOMAIN OPENER_MAP
                           /\ ret["engine"] = OPENER_MAP[call.file_type]["engine"]
       /\ (call.file_type \in DOMAIN OPENER_MAP
             /\ call.kw["engine"] # OPENER_MAP[call.file_type]["engine"])
          => status = EngineConflict

\* The first message of the scanner's list that holds key k.
FirstWriter(k) ==
    CHOOSE i \in DOMAIN call.scanned :
        /\ k \in DOMAIN call.scanned[i]["refs"]
        /\ \A j \in 1..(i - 1) : k \notin DOMAIN call.scanned[j]["refs"]

GribDone ==
    Done("open_with_kerchunk") /\ call.file_type = "grib" /\ status = "ok"

\* C3: consolidating two or more GRIB messages is first-writer-wins: a key
\* held by several messages keeps the value of the earliest of them.
C3_FirstWriterWins ==
    (GribDone /\ Len(call.scanned) >= 2)
    => \A k \in DOMAIN ret["refs"] :
           ret["refs"][k] = call.scanned[FirstWriter(k)]["refs"][k]

PairwiseDisjoint(msgs) ==
    \A i, j \in DOMAIN msgs :
        i # j => DOMAIN msgs[i]["refs"] \cap DOMAIN msgs[j]["refs"] = {}

\* The object the scanner was given: the source, or the file that
\* source.open() returned.
Scanned(src) == IF src.kind = "OpenFile" THEN [src EXCEPT !.kind = "IOBase"] ELSE src

\* C4: a GRIB scan of N >= 1 messages with pairwise disjoint keys returns
\* one mapping holding exactly the entries of all the messages, and a
\* templates entry mapping "u" to the scanned source; with N = 1 it is the
\* message's mapping with templates added.
C4_DisjointMessagesUnion ==
    (GribDone /\ Len(call.scanned) >= 1 /\ PairwiseDisjoint(call.scanned))
    => /\ DOMAIN ret = {"version", "refs", "templates"}
       /\ ret["version"] = call.scanned[1]["version"]
       /\ ret["templates"] = [u |-> Scanned(call.url_or_file_obj)]
       /\ DOMAIN ret["refs"] =
              UNION {DOMAIN call.scanned[i]["refs"] : i \in DOMAIN call.scanned}
       /\ \A i \in DOMAIN call.scanned : \A k \in DOMAIN call.scanned[i]["refs"] :
              ret["refs"][k] = call.scanned[i]["refs"][k]
       /\ Len(call.scanned) = 1 => ret["refs"] = call.scanned[1]["refs"]

\* Three messages with disjoint, non-empty keys were consolidated.
C4_Witness ==
    /\ GribDone
    /\ Len(call.scanned) = 3
    /\ PairwiseDisjoint(call.scanned)
    /\ \A i \in 1..3 : DOMAIN call.scanned[i]["refs"] # {}
    /\ DOMAIN ret["refs"] = RefKeys

NoCopyMade == Calls \cap {TempFile, OpenTarget, CopyBtw, XrOpenDataset} = {}

\* C5: open_with_xarray with copy_to_local raises the can't-be-copied
\* ValueError for zarr and for opendap, and the won't-copy-string-URLs
\* ValueError for a str source of a file type whose engine resolves; in
\* both cases without a temporary file, a copy or a call of xarray.
C5_CopyRefused ==
    (Done("open_with_xarray") /\ call.copy_to_local
        /\ ~HasEngine(call.xarray_open_kwargs))
    => /\ call.file_type \in {"zarr", "opendap"}
          => status = UnsupportedCopyTarget /\ NoCopyMade
       /\ (call.file_type \in {"netcdf3", "netcdf4", "unknown"}
             /\ call.url_or_file_obj.kind = "str")
          => status = UnsupportedCopySource /\ NoCopyMade

\* C6: open_url with a cache calls cache_file once and first, then
\* open_file, never _get_opener; when cache_file raises, open_file is not
\* called and the error is the call's outcome; a successful call has put
\* the url in the cache.  Without a cache it calls _get_opener once, only.
C6_PrefetchBeforeOpen ==
    Done("open_url")
    => IF call.cache # None
       THEN /\ Len(log) >= 1 /\ log[1] = CacheFile
            /\ Count(log, CacheFile) = 1
            /\ Count(log, CacheOpenFile) <= 1
            /\ GetOpener \notin Calls
            /\ call.fail = CacheFile
                  => log = <<CacheFile>> /\ status = CollaboratorError /\ ret = None
            /\ call.fail \notin {CacheFile, CacheOpenFile}
                  => /\ log = <<CacheFile, CacheOpenFile>>
                     /\ status = "ok"
                     /\ call.url \in cached
       ELSE /\ log = <<GetOpener>>
            /\ (status = "ok") = (call.fail # GetOpener)

\* A call with a cache that prefetched and then opened.
C6_Witness ==
    /\ Done("open_url")
    /\ call.cache # None
    /\ status = "ok"
    /\ log = <<CacheFile, CacheOpenFile>>

AllTuples(o) ==
    \A f \in DOMAIN o : o[f].type = "tuple"

ScannerOf(file_type) ==
    CASE file_type = "netcdf4" -> Hdf5Scanner
      [] file_type = "netcdf3" -> NetCDF3Scanner
      [] file_type = "grib"    -> GribScanner

\* C7: open_with_kerchunk, given its options as tuples, calls exactly one
\* scanner, the one of the file type, for a str source and for a file
\* object that has a path; for unknown, zarr and opendap it calls no
\* scanner and raises.
C7_OneScannerByType ==
    (Done("open_with_kerchunk") /\ AllTuples(call.options))
    => /\ (call.file_type \in {"netcdf4", "netcdf3", "grib"}
             /\ call.url_or_file_obj.kind # "FSStore"
             /\ (call.url_or_file_obj.kind = "str" \/ call.url_or_file_obj.path)
             /\ Failed # HandleOpen)
          => /\ Calls \cap Scanners = {ScannerOf(call.file_type)}
             /\ Count(log, ScannerOf(call.file_type)) = 1
       /\ call.file_type \in {"unknown", "zarr", "opendap"}
          => Calls \cap Scanners = {} /\ status # "ok" /\ ret = None

\* C8: open_with_xarray warns that the data is in a local file exactly once
\* in a call that returns a dataset copied locally and not loaded, and in
\* no other call.
C8_LocalCopyWarning ==
    Done("open_with_xarray")
    => /\ Count(warns, LocalCopyWarning) =
              IF status = "ok" /\ call.copy_to_local /\ ~call.load THEN 1 ELSE 0
       /\ (status = "ok" /\ call.copy_to_local)
          => /\ ret["source"] = [kind |-> "str", url |-> tmp_name, path |-> FALSE]
             /\ ret["loaded"] = call.load

\* A call that copied, did not load and warned.
C8_Witness ==
    /\ Done("open_with_xarray")
    /\ status = "ok"
    /\ call.copy_to_local /\ ~call.load
    /\ Count(warns, LocalCopyWarning) = 1
    /\ CopyBtw \in Calls

\* C9: _set_engine never both warns and raises; it warns exactly once,
\* returning its options unchanged, for unknown without engine and, for
\* every known file type, for some engine (the file type's); every other
\* successful call warns of nothing.
C9_WarningsExact ==
    Done("_set_engine")
    => /\ ~(warns # <<>> /\ status # "ok")
       /\ Len(warns) <= 1
       /\ (call.file_type = "unknown" /\ ~HasEngine(call.kw))
          => status = "ok" /\ warns = <<AutoDetectWarning>> /\ ret = call.kw
       /\ call.file_type \in KnownFileType
          => \E e \in Engines :
                LET r == _set_engine(call.file_type, [engine |-> e]) IN
                r.status = "ok" /\ r.warns = <<RedundantEngineWarning>>
                    /\ r.ret = [engine |-> e]
       /\ (status = "ok" /\ warns # <<>>)
          => /\ ret = call.kw
             /\ \/ call.file_type = "unknown" /\ ~HasEngine(call.kw)
                \/ call.file_type \in KnownFileType /\ HasEngine(call.kw)

\* The collaborator calls of a successful open_with_xarray call, in order.
XarraySteps ==
    <<SetEngine>>
    \o (IF call.copy_to_local THEN <<TempFile, OpenTarget, CopyBtw>> ELSE <<>>)
    \o (IF ~call.copy_to_local /\ call.url_or_file_obj.kind = "OpenFile"
        THEN <<HandleOpen>> ELSE <<>>)
    \o <<XrOpenDataset>>
    \o (IF call.load THEN <<DsLoad>> ELSE <<>>)

\* C10: open_with_xarray resolves the engine before anything else: when
\* _set_engine raises, that is the call's outcome and no file is created,
\* copied or opened; otherwise the steps run in the order copy to local,
\* source.open(), xr.open_dataset, ds.load, and stop at the first to raise.
C10_ResolveBeforeIO ==
    Done("open_with_xarray")
    => LET r == _set_engine(call.file_type, Or(call.xarray_open_kwargs, EmptyDict)) IN
       /\ Len(log) >= 1 /\ log[1] = SetEngine
       /\ Count(log, SetEngine) = 1
       /\ r.status # "ok" => log = <<SetEngine>> /\ status = r.status
       /\ status = "ok" => log = XarraySteps /\ ret["kw"] = r.ret
       /\ Len(log) <= Len(XarraySteps)
       /\ \A i \in DOMAIN log : log[i] = XarraySteps[i]

\* A call that resolved, copied, opened and loaded.
C10_Witness ==
    /\ Done("open_with_xarray")
    /\ status = "ok"
    /\ log = <<SetEngine, TempFile, OpenTarget, CopyBtw, XrOpenDataset, DsLoad>>
====
